---- MODULE Spec2Model ----
(***************************************************************************)
(* A model of makesitex.py, a static site generator.                       *)
(*                                                                         *)
(* Text is modelled as a sequence of one-character strings, so that the    *)
(* header parser, the filename regex, strptime and the sort on the raw     *)
(* date string are computed character by character as the code does.       *)
(* A Python dict is a function whose domain is the set of its keys.        *)
(***************************************************************************)
EXTENDS Integers, Sequences, FiniteSets, TLC

(***************************************************************************)
(* Bounds of the model.                                                    *)
(***************************************************************************)
MaxLines == 4
MaxPosts == 3

(***************************************************************************)
(* Characters and strings.                                                 *)
(***************************************************************************)
Digits == <<"0", "1", "2", "3", "4", "5", "6", "7", "8", "9">>

IsDigit(c) == \E i \in 1..10 : Digits[i] = c

DigitVal(c) == (CHOOSE i \in 1..10 : Digits[i] = c) - 1

\* The characters the model uses, in code point order (str comparison).
CharOrder ==
  <<"\t", "\n", "\r", " ", "%", ",", "-", ".", "/", "0", "1", "2", "3", "4",
    "5", "6", "7", "8", "9", ":", "<", ">", "A", "D", "F", "J", "M", "N",
    "O", "S", "T", "W", "_", "a", "b", "c", "d", "e", "g", "h", "i", "k",
    "l", "m", "n", "o", "p", "r", "s", "t", "u", "v", "x", "y">>

Ord(c) == CHOOSE i \in 1..Len(CharOrder) : CharOrder[i] = c

\* a < b for Python str values (lexicographic by code point).
RECURSIVE StrLess(_, _)
StrLess(a, b) ==
  IF b = <<>> THEN FALSE
  ELSE IF a = <<>> THEN TRUE
  ELSE IF Head(a) = Head(b) THEN StrLess(Tail(a), Tail(b))
  ELSE Ord(Head(a)) < Ord(Head(b))

\* The TLA+ string spelled by a sequence of characters.
RECURSIVE Str(_)
Str(s) == IF s = <<>> THEN "" ELSE Head(s) \o Str(Tail(s))

Whitespace == {" ", "\t", "\n", "\r"}

RECURSIVE LStrip(_)
LStrip(s) ==
  IF s # <<>> /\ Head(s) \in Whitespace THEN LStrip(Tail(s)) ELSE s

RECURSIVE RStrip(_)
RStrip(s) ==
  IF s # <<>> /\ s[Len(s)] \in Whitespace
  THEN RStrip(SubSeq(s, 1, Len(s) - 1)) ELSE s

\* str.strip()
Strip(s) == RStrip(LStrip(s))

\* Position of the first occurrence of character c in s, 0 when absent.
FirstIndex(s, c) ==
  IF \E i \in 1..Len(s) : s[i] = c
  THEN CHOOSE i \in 1..Len(s) : s[i] = c /\ \A j \in 1..(i - 1) : s[j] # c
  ELSE 0

\* str.split(sep) for a one-character separator: always at least one piece.
RECURSIVE Split(_, _)
Split(s, sep) ==
  LET i == FirstIndex(s, sep) IN
  IF i = 0 THEN <<s>>
  ELSE <<SubSeq(s, 1, i - 1)>> \o Split(SubSeq(s, i + 1, Len(s)), sep)

\* sep.join(parts)
RECURSIVE Join(_, _)
Join(parts, sep) ==
  IF parts = <<>> THEN <<>>
  ELSE IF Len(parts) = 1 THEN parts[1]
  ELSE parts[1] \o sep \o Join(Tail(parts), sep)

\* text[n:] for n >= 0 (an offset past the end gives the empty string).
SliceFrom(s, n) == SubSeq(s, n + 1, Len(s))

StartsWith(s, p) == Len(s) >= Len(p) /\ SubSeq(s, 1, Len(p)) = p

EndsWith(s, p) ==
  Len(s) >= Len(p) /\ SubSeq(s, Len(s) - Len(p) + 1, Len(s)) = p

(***************************************************************************)
(* Dictionaries.                                                           *)
(***************************************************************************)
EmptyDict == [k \in {} |-> <<>>]

\* d.update(e): the keys of e win.
Update(d, e) ==
  [k \in (DOMAIN d) \cup (DOMAIN e) |-> IF k \in DOMAIN e THEN e[k] ELSE d[k]]

Put(d, k, v) == Update(d, k :> v)

(***************************************************************************)
(* read_header                                                             *)
(***************************************************************************)
Sentinel == <<"-", "-", "-">>

\* re.match(r"^([^:]+):(.*)$", line): the key is the text before the first
\* colon and must not be empty.
HeaderLineMatches(line) == FirstIndex(line, ":") >= 2

HeaderLineKey(line) == Str(Strip(SubSeq(line, 1, FirstIndex(line, ":") - 1)))

HeaderLineValue(line) ==
  Strip(SubSeq(line, FirstIndex(line, ":") + 1, Len(line)))

\* HeaderLoop with the offset stopping before the closing sentinel.
RECURSIVE HeaderLoopBeforeClose(_, _, _, _)
HeaderLoopBeforeClose(lines, i, values, end) ==
  IF i > Len(lines)
  THEN [exc |-> "IndexError", values |-> values, end |-> end]
  ELSE IF Strip(lines[i]) = Sentinel
  THEN [exc |-> "none", values |-> values, end |-> end]
  ELSE HeaderLoopBeforeClose(lines, i + 1,
                  IF HeaderLineMatches(lines[i])
                  THEN Put(values, HeaderLineKey(lines[i]),
                           HeaderLineValue(lines[i]))
                  ELSE values,
                  end + Len(lines[i]) + 1)

\* The while loop of read_header from index i (1-based here, lines[i - 1] in
\* the code), carrying the values and the offset accumulated so far.  Reading
\* lines[i] past the end of the list raises IndexError.
RECURSIVE HeaderLoop(_, _, _, _)
HeaderLoop(lines, i, values, end) ==
  IF i > Len(lines)
  THEN [exc |-> "IndexError", values |-> values, end |-> end]
  ELSE IF Strip(lines[i]) = Sentinel
  THEN [exc |-> "none", values |-> values, end |-> end + Len(lines[i]) + 1]
  ELSE HeaderLoop(lines, i + 1,
                  IF HeaderLineMatches(lines[i])
                  THEN Put(values, HeaderLineKey(lines[i]),
                           HeaderLineValue(lines[i]))
                  ELSE values,
                  end + Len(lines[i]) + 1)

read_header(text) ==
  LET lines == Split(text, "\n") IN
  IF Strip(lines[1]) = Sentinel
  THEN HeaderLoop(lines, 2, EmptyDict, Len(lines[1]) + 1)
  ELSE [exc |-> "none", values |-> EmptyDict, end |-> 0]


(***************************************************************************)
(* format_time: datetime.strptime with the two patterns, then strftime.    *)
(***************************************************************************)
DigitAt(s, i) == i >= 1 /\ i <= Len(s) /\ IsDigit(s[i])

CharAt(s, i, c) == i >= 1 /\ i <= Len(s) /\ s[i] = c

NonZeroDigitAt(s, i) == DigitAt(s, i) /\ s[i] # "0"

\* %m is (1[0-2]|0[1-9]|[1-9]): the lengths of the alternatives that match
\* at position i, in the order the regex engine tries them.
MonthAlts(s, i) ==
  (IF \/ (CharAt(s, i, "1") /\ DigitAt(s, i + 1) /\ DigitVal(s[i + 1]) <= 2)
      \/ (CharAt(s, i, "0") /\ NonZeroDigitAt(s, i + 1))
   THEN <<2>> ELSE <<>>)
  \o (IF NonZeroDigitAt(s, i) THEN <<1>> ELSE <<>>)

\* %d is (3[0-1]|[1-2]\d|0[1-9]|[1-9]| [1-9]): the length of the first
\* alternative that matches at position i, 0 when none does.
DayLen(s, i) ==
  IF \/ (CharAt(s, i, "3") /\ DigitAt(s, i + 1) /\ DigitVal(s[i + 1]) <= 1)
     \/ (DigitAt(s, i) /\ DigitVal(s[i]) \in {1, 2} /\ DigitAt(s, i + 1))
     \/ (CharAt(s, i, "0") /\ NonZeroDigitAt(s, i + 1))
  THEN 2
  ELSE IF NonZeroDigitAt(s, i) THEN 1
  ELSE IF CharAt(s, i, " ") /\ NonZeroDigitAt(s, i + 1) THEN 2
  ELSE 0

\* int() of the one or two characters of a matched field.
FieldVal(s, i, n) ==
  IF n = 1 THEN DigitVal(s[i])
  ELSE (IF s[i] = " " THEN 0 ELSE 10 * DigitVal(s[i])) + DigitVal(s[i + 1])

IsLeap(y) == (y % 4 = 0 /\ y % 100 # 0) \/ y % 400 = 0

DaysInMonth(y, m) ==
  IF m = 2 THEN (IF IsLeap(y) THEN 29 ELSE 28)
  ELSE IF m \in {4, 6, 9, 11} THEN 30 ELSE 31

NoDate == [ok |-> FALSE, y |-> 0, m |-> 0, d |-> 0]

\* The length of the month alternative the regex engine settles on at mpos:
\* the first one after which the separator and a day match, 0 when none does.
SepAt(s, i, sep) == sep = 0 \/ CharAt(s, i, "-")

MonthFits(s, i, sep) == SepAt(s, i, sep) /\ DayLen(s, i + sep) > 0

FirstFit(s, mpos, sep, alts) ==
  IF alts = <<>> THEN 0
  ELSE IF MonthFits(s, mpos + alts[1], sep) THEN alts[1]
  ELSE IF Len(alts) = 2 /\ MonthFits(s, mpos + alts[2], sep) THEN alts[2]
  ELSE 0

MonthLen(s, mpos, sep) == FirstFit(s, mpos, sep, MonthAlts(s, mpos))

YearVal(s) ==
  1000 * DigitVal(s[1]) + 100 * DigitVal(s[2]) + 10 * DigitVal(s[3])
    + DigitVal(s[4])

\* datetime(year, month, day): a day the calendar does not have, or year 0,
\* raises ValueError.
CheckDate(y, m, d) ==
  IF y < 1 \/ d > DaysInMonth(y, m) THEN NoDate
  ELSE [ok |-> TRUE, y |-> y, m |-> m, d |-> d]

\* The match must end the string ("unconverted data remains" otherwise).
StrptimeDay(s, mpos, mlen, dpos, dlen) ==
  IF dpos + dlen - 1 # Len(s) THEN NoDate
  ELSE CheckDate(YearVal(s), FieldVal(s, mpos, mlen), FieldVal(s, dpos, dlen))

StrptimeMonth(s, sep, mlen) ==
  IF mlen = 0 THEN NoDate
  ELSE StrptimeDay(s, 5 + sep, mlen, 5 + sep + mlen + sep,
                   DayLen(s, 5 + sep + mlen + sep))

\* datetime.strptime(s, "%Y-%m-%d") when sep = 1, (s, "%Y%m%d") when sep = 0.
\* The regex is matched at the start of s and the first match in the
\* engine's order is kept; ok = FALSE stands for ValueError.
strptime(s, sep) ==
  IF ~(\A i \in 1..4 : DigitAt(s, i)) \/ ~SepAt(s, 5, sep) THEN NoDate
  ELSE StrptimeMonth(s, sep, MonthLen(s, 5 + sep, sep))

TwoDigits(n) == <<Digits[(n \div 10) + 1], Digits[(n % 10) + 1]>>

FourDigits(n) == TwoDigits(n \div 100) \o TwoDigits(n % 100)

MonthAbbr ==
  << <<"J", "a", "n">>, <<"F", "e", "b">>, <<"M", "a", "r">>,
     <<"A", "p", "r">>, <<"M", "a", "y">>, <<"J", "u", "n">>,
     <<"J", "u", "l">>, <<"A", "u", "g">>, <<"S", "e", "p">>,
     <<"O", "c", "t">>, <<"N", "o", "v">>, <<"D", "e", "c">> >>

DayAbbr ==
  << <<"S", "u", "n">>, <<"M", "o", "n">>, <<"T", "u", "e">>,
     <<"W", "e", "d">>, <<"T", "h", "u">>, <<"F", "r", "i">>,
     <<"S", "a", "t">> >>

\* Day of the week of a calendar date, 0 for Sunday.
Weekday(y, m, d) ==
  LET t == <<0, 3, 2, 5, 0, 3, 5, 1, 4, 6, 2, 4>>
      yy == IF m < 3 THEN y - 1 ELSE y
  IN (yy + (yy \div 4) - (yy \div 100) + (yy \div 400) + t[m] + d) % 7

\* One strftime directive; the time of day of a parsed date is midnight.
Directive(c, y, m, d) ==
  IF c = "Y" THEN FourDigits(y)
  ELSE IF c = "m" THEN TwoDigits(m)
  ELSE IF c = "d" THEN TwoDigits(d)
  ELSE IF c = "b" THEN MonthAbbr[m]
  ELSE IF c = "a" THEN DayAbbr[Weekday(y, m, d) + 1]
  ELSE IF c \in {"H", "M", "S"} THEN <<"0", "0">>
  ELSE IF c = "%" THEN <<"%">>
  ELSE <<"%", c>>

\* d.strftime(format)
RECURSIVE strftime(_, _, _, _)
strftime(format, y, m, d) ==
  IF format = <<>> THEN <<>>
  ELSE IF Head(format) = "%" /\ Len(format) >= 2
  THEN Directive(format[2], y, m, d) \o strftime(SliceFrom(format, 2), y, m, d)
  ELSE <<Head(format)>> \o strftime(Tail(format), y, m, d)

\* PATTERNS of format_time, tried in order: the parsed date or NoDate.
SecondPattern(date_str, first) ==
  IF first.ok THEN first ELSE strptime(date_str, 0)

\* ParseDate with the dashed pattern missing from PATTERNS.
ParseDateCompactOnly(date_str) == strptime(date_str, 0)

ParseDate(date_str) == SecondPattern(date_str, strptime(date_str, 1))

FormatParsed(p, format) ==
  IF p.ok THEN [text |-> strftime(format, p.y, p.m, p.d), warned |-> FALSE]
  ELSE [text |-> <<>>, warned |-> TRUE]

\* format_time: the formatted text, and whether "Can't parse date" was logged.
format_time(date_str, format) == FormatParsed(ParseDate(date_str), format)

(***************************************************************************)
(* read_content                                                            *)
(***************************************************************************)
\* Position of the last occurrence of character c in s, 0 when absent.
LastIndex(s, c) ==
  IF \E i \in 1..Len(s) : s[i] = c
  THEN CHOOSE i \in 1..Len(s) :
         s[i] = c /\ \A j \in (i + 1)..Len(s) : s[j] # c
  ELSE 0

\* os.path.basename
Basename(path) == SliceFrom(path, LastIndex(path, "/"))

\* os.path.basename(filename).split(".")[0]
DateSlug(filename) == Split(Basename(filename), ".")[1]

\* Group 1 of r"^(?:(\d\d\d\d-\d\d-\d\d)-)?(.+)$" takes part: the stem starts
\* with dddd-dd-dd- and something is left for group 2.
HasDatePrefix(stem) ==
  /\ Len(stem) >= 12
  /\ \A i \in {1, 2, 3, 4, 6, 7, 9, 10} : IsDigit(stem[i])
  /\ \A i \in {5, 8, 11} : stem[i] = "-"

EpochDate == <<"1", "9", "7", "0", "-", "0", "1", "-", "0", "1">>

\* The date and slug that the match of the regex on the stem contributes;
\* nothing when it does not match (an empty stem).
StemMeta(stem) ==
  IF stem = <<>> THEN EmptyDict
  ELSE IF HasDatePrefix(stem)
  THEN [date |-> SubSeq(stem, 1, 10), slug |-> SliceFrom(stem, 11)]
  ELSE [date |-> EpochDate, slug |-> stem]

FilenameMeta(filename) == StemMeta(DateSlug(filename))

ShortFormat == <<"%", "Y", "-", "%", "m", "-", "%", "d">>

Rfc2822Format ==
  <<"%", "a", ",", " ", "%", "d", " ", "%", "b", " ", "%", "Y", " ",
    "%", "H", ":", "%", "M", ":", "%", "S", " ", "+", "0", "0", "0", "0">>

NoItem == EmptyDict

\* log_critical inside read_content or fread: the message names the file and
\* the process exits with code 1.
ContentCritical(where, filename, cause) ==
  [status |-> "critical", exit_code |-> 1, where |-> where,
   file |-> filename, cause |-> cause, item |-> NoItem, warnings |-> 0]

\* An exception that nothing catches: the interpreter prints a traceback.
ContentUncaught(filename, cause) ==
  [status |-> "uncaught", exit_code |-> 1, where |-> "traceback",
   file |-> filename, cause |-> cause, item |-> NoItem, warnings |-> 0]

Raise(e) == [exc |-> e, item |-> NoItem, warnings |-> 0]

WarnCount(r) == IF r.warned THEN 1 ELSE 0

\* The last update of read_content: the body and the three formatted dates.
Formatted(content, body, short, human, rfc) ==
  [exc |-> "none",
   item |-> Update(content,
                   [content |-> body,
                    short_date |-> short.text,
                    human_date |-> human.text,
                    rfc_2822_date |-> rfc.text]),
   warnings |-> WarnCount(short) + WarnCount(human) + WarnCount(rfc)]

\* content["date"] and content["date_human_format"] must exist.
WithDates(content, body) ==
  IF "date" \notin DOMAIN content \/ "date_human_format" \notin DOMAIN content
  THEN Raise("KeyError")
  ELSE Formatted(content, body,
                 format_time(content["date"], ShortFormat),
                 format_time(content["date"], content["date_human_format"]),
                 format_time(content["date"], Rfc2822Format))

\* content.update(header); text = text[end:]
WithHeader(text, named, h) ==
  IF h.exc # "none" THEN Raise(h.exc)
  ELSE WithDates(Update(named, h.values), SliceFrom(text, h.end))

\* The body of the try block of read_content; exc names the exception it
\* raises, "none" when it returns, "SystemExit" when fread exits.
ReadContentBody(filename, readable, text, site_params) ==
  IF ~readable THEN Raise("SystemExit")
  ELSE WithHeader(text, Update(site_params, FilenameMeta(filename)),
                  read_header(text))

\* Handled without the except clause: an exception of the body escapes.
HandledNowhere(filename, r) ==
  IF r.exc = "none"
  THEN [status |-> "ok", exit_code |-> 0, where |-> "none",
        file |-> filename, cause |-> "none", item |-> r.item,
        warnings |-> r.warnings]
  ELSE IF r.exc = "SystemExit"
  THEN ContentCritical("fread", filename, "OSError")
  ELSE ContentUncaught(filename, r.exc)

\* "except Exception" turns every exception of the body into log_critical;
\* the SystemExit raised by fread's own log_critical is not an Exception and
\* passes through.
Handled(filename, r) ==
  IF r.exc = "none"
  THEN [status |-> "ok", exit_code |-> 0, where |-> "none",
        file |-> filename, cause |-> "none", item |-> r.item,
        warnings |-> r.warnings]
  ELSE IF r.exc = "SystemExit"
  THEN ContentCritical("fread", filename, "OSError")
  ELSE ContentCritical("read_content", filename, r.exc)

read_content(filename, readable, text, site_params) ==
  Handled(filename, ReadContentBody(filename, readable, text, site_params))

(***************************************************************************)
(* to_bool, expand_files, render_template, render_page                     *)
(*                                                                         *)
(* A JSON scalar that to_bool receives is a record tagged with its type:   *)
(* [t |-> "bool", b |-> ..], [t |-> "int", n |-> ..], [t |-> "str",        *)
(* s |-> ..] or [t |-> "null"].  Every other string value is a bare        *)
(* sequence of characters.                                                 *)
(***************************************************************************)
LowerOf ==
  ("A" :> "a") @@ ("B" :> "b") @@ ("D" :> "d") @@ ("N" :> "n") @@ ("O" :> "o")
    @@ ("S" :> "s") @@ ("T" :> "t") @@ ("Y" :> "y")

Lower(c) == IF c \in DOMAIN LowerOf THEN LowerOf[c] ELSE c

Upper(c) ==
  IF \E u \in DOMAIN LowerOf : LowerOf[u] = c
  THEN CHOOSE u \in DOMAIN LowerOf : LowerOf[u] = c ELSE c

\* str.lower()
LowerStr(s) == [i \in 1..Len(s) |-> Lower(s[i])]

\* str.capitalize()
Capitalize(s) ==
  [i \in 1..Len(s) |-> IF i = 1 THEN Upper(s[i]) ELSE Lower(s[i])]

TrueWords ==
  { <<"t", "r", "u", "e">>, <<"y", "e", "s">>, <<"o", "k">>, <<"s", "i">>,
    <<"b", "a", "i">>, <<"o", "u", "i">>, <<"d", "a">>, <<"1">> }

to_bool(value) ==
  IF value.t = "bool" THEN value.b
  ELSE IF value.t = "int" THEN value.n # 0
  ELSE IF value.t = "str" THEN LowerStr(value.s) \in TrueWords
  ELSE FALSE

JsonNull == [t |-> "null"]

\* meta.get(key), None when the key is absent
MetaFlag(meta, key) == IF key \in DOMAIN meta THEN meta[key] ELSE JsonNull

\* glob.glob of one brace alternative over a directory listing.  kind names
\* the pattern: "pages" is [!_]*.ext, "all" is *.ext, "index" is _index.ext.
\* A name starting with a dot is hidden from patterns that do not.
GlobMatches(kind, name, ext) ==
  LET suffix == <<".">> \o ext IN
  IF kind = "index" THEN name = <<"_", "i", "n", "d", "e", "x">> \o suffix
  ELSE /\ EndsWith(name, suffix)
       /\ name[1] # "."
       /\ (kind = "pages" => (Len(name) > Len(suffix) /\ name[1] # "_"))

MdExt == <<"m", "d">>

HtmlExt == <<"h", "t", "m", "l">>

\* expand_files over "{md,html}": the matches of *.md in listing order, then
\* those of *.html; max_results = 0 keeps them all.
expand_files(listing, kind, max_results) ==
  LET IsMd(f) == GlobMatches(kind, f.name, MdExt)
      IsHtml(f) == GlobMatches(kind, f.name, HtmlExt)
      result == SelectSeq(listing, IsMd) \o SelectSeq(listing, IsHtml)
  IN IF max_results # 0 /\ Len(result) > max_results
     THEN SubSeq(result, 1, max_results) ELSE result

\* render_template with a layout of the layout directory: the output is the
\* layout applied to the parameters it was given.
render_template(tpl, params) == [layout |-> tpl, params |-> params]

\* render_template with a content body as the template.  The bodies of the
\* model hold no template syntax: Jinja copies the text and drops a single
\* trailing newline.
RenderBody(text) ==
  IF text # <<>> /\ text[Len(text)] = "\n"
  THEN SubSeq(text, 1, Len(text) - 1) ELSE text

MarkdownSuffixes ==
  { <<".", "m", "d">>, <<".", "m", "k", "d">>, <<".", "m", "k", "d", "n">>,
    <<".", "m", "d", "o", "w", "n">>,
    <<".", "m", "a", "r", "k", "d", "o", "w", "n">> }

\* markdown.markdown of a body that is one plain paragraph.
Markdown(text) ==
  IF text = <<>> THEN <<>>
  ELSE <<"<", "p", ">">> \o text \o <<"<", "/", "p", ">">>

DateWarnings(date, n) ==
  [i \in 1..n |-> [msg |-> "cant_parse_date", date |-> date]]

NoPage(status, cause) ==
  [status |-> status, cause |-> cause, page |-> NoItem, warns |-> <<>>]

\* The Markdown conversion of render_page, by the extension of the file.
ToHtml(filename, rendered) ==
  IF \E e \in MarkdownSuffixes : EndsWith(filename, e)
  THEN Markdown(rendered) ELSE rendered

\* render_page once read_content has returned r.
Rendered(filename, r) ==
  IF r.status # "ok" THEN NoPage(r.status, r.cause)
  ELSE [status |-> "ok", cause |-> "none",
        page |-> Put(r.item, "content",
                     ToHtml(filename, RenderBody(r.item["content"]))),
        warns |-> DateWarnings(r.item["date"], r.warnings)]

FilePath(dirpath, file) == dirpath \o <<"/">> \o file.name

\* render_page.  matches is what expand_files(path, max_results=1) found, a
\* file being [name |-> .., text |-> ..] in directory dirpath; status "none"
\* stands for the None returned when nothing matches.
render_page(dirpath, matches, site_params) ==
  IF matches = <<>> THEN NoPage("none", "none")
  ELSE Rendered(FilePath(dirpath, matches[1]),
                read_content(FilePath(dirpath, matches[1]), TRUE,
                             matches[1].text, site_params))

(***************************************************************************)
(* make_pages and make_index                                               *)
(*                                                                         *)
(* The output side of the build is a record out:                           *)
(*   writes    the fwrite calls so far, each [path, src, output];          *)
(*   files     the paths that exist under the output directory;            *)
(*   warns     the log_warn messages so far.                               *)
(* A call returns st = "ok", or "critical" (log_critical, exit code 1) or  *)
(* "uncaught" (an exception nobody handles, exit code 1) with its cause.   *)
(***************************************************************************)
LayoutFiles ==
  {"page.html", "post.html", "list.html", "item.html", "feed.xml", "item.xml"}

\* fwrite: warns when the file exists, then writes it.
fwrite(out, path, src, output) ==
  [writes |-> Append(out.writes,
                     [path |-> path, src |-> src, output |-> output]),
   files |-> out.files \cup {path},
   warns |-> IF path \in out.files
             THEN Append(out.warns, [msg |-> "overwrite", path |-> path])
             ELSE out.warns]

\* A destination path template: "<pre>{{ slug }}<post>" when slug is TRUE,
\* the fixed path pre otherwise.  A missing slug renders as nothing.
DestPath(dest, params) ==
  IF dest.slug
  THEN dest.pre
         \o (IF "slug" \in DOMAIN params THEN Str(params["slug"]) ELSE "")
         \o dest.post
  ELSE dest.pre

\* Where sorted(..., reverse=True) puts x among the items already placed:
\* after every item whose date is not smaller, so equal keys keep the order
\* in which they arrived.
RECURSIVE InsertByDateDesc(_, _)
InsertByDateDesc(placed, x) ==
  IF placed = <<>> THEN <<x>>
  ELSE IF StrLess(Head(placed)["date"], x["date"]) THEN <<x>> \o placed
  ELSE <<Head(placed)>> \o InsertByDateDesc(Tail(placed), x)

\* list(sorted(items, key=lambda x: x["date"], reverse=True))
RECURSIVE SortByDateDesc(_)
SortByDateDesc(items) ==
  IF items = <<>> THEN <<>>
  ELSE InsertByDateDesc(SortByDateDesc(SubSeq(items, 1, Len(items) - 1)),
                        items[Len(items)])

\* output_dict.get("template"), else the default layout of the call.
LayoutOf(page, default_layout) ==
  IF "template" \in DOMAIN page /\ page["template"] # <<>>
  THEN Str(page["template"]) ELSE default_layout

WithWarns(o, warns) == [o EXCEPT !.warns = @ \o warns]

\* The for loop of make_pages from the k-th matched file on, and the body of
\* the loop once render_page has returned rp for that file.
RECURSIVE MakePagesLoop(_, _, _, _, _, _, _)
RECURSIVE PageStep(_, _, _, _, _, _, _, _)
PageStep(dirpath, files, k, dest, default_layout, site_params, acc, rp) ==
  IF rp.status # "ok"
  THEN [acc EXCEPT !.st = rp.status, !.cause = rp.cause,
                   !.file = FilePath(dirpath, files[k])]
  ELSE IF LayoutOf(rp.page, default_layout) \notin LayoutFiles
  THEN [acc EXCEPT !.st = "uncaught", !.cause = "TemplateNotFound",
                   !.file = FilePath(dirpath, files[k]),
                   !.out = WithWarns(@, rp.warns)]
  ELSE MakePagesLoop(dirpath, files, k + 1, dest, default_layout, site_params,
         [acc EXCEPT
            !.items = Append(@, rp.page),
            !.out = fwrite(WithWarns(@, rp.warns), DestPath(dest, rp.page),
                      FilePath(dirpath, files[k]),
                      render_template(LayoutOf(rp.page, default_layout),
                                      rp.page))])

MakePagesLoop(dirpath, files, k, dest, default_layout, site_params, acc) ==
  IF k > Len(files) THEN acc
  ELSE PageStep(dirpath, files, k, dest, default_layout, site_params, acc,
                render_page(dirpath, <<files[k]>>, site_params))

\* The return of make_pages: the items sorted (nothing is returned when the
\* loop ended the process).
Returned(r) ==
  [r EXCEPT !.items = IF r.st = "ok" THEN SortByDateDesc(@) ELSE <<>>]

\* make_pages: items is the returned list.
make_pages(dirpath, files, dest, default_layout, site_params, out) ==
  Returned(MakePagesLoop(dirpath, files, 1, dest, default_layout, site_params,
             [st |-> "ok", cause |-> "none", file |-> <<>>, items |-> <<>>,
              out |-> out]))

\* re.sub("(?s)<.*?>", " ", s): every "<" up to the next ">" becomes a space.
RECURSIVE StripTags(_)
StripTags(s) ==
  LET i == FirstIndex(s, "<")
      rest == SliceFrom(s, i)
      j == FirstIndex(rest, ">")
  IN IF i = 0 \/ j = 0 THEN s
     ELSE SubSeq(s, 1, i - 1) \o <<" ">> \o StripTags(SliceFrom(rest, j))

\* str.split(): the maximal runs of characters that are not whitespace.
RECURSIVE Words(_)
Words(s) ==
  LET t == LStrip(s)
      IsSpace(i) == t[i] \in Whitespace
      n == IF \E i \in 1..Len(t) : IsSpace(i)
           THEN (CHOOSE i \in 1..Len(t) :
                   IsSpace(i) /\ \A j \in 1..(i - 1) : ~IsSpace(j)) - 1
           ELSE Len(t)
  IN IF t = <<>> THEN <<>>
     ELSE <<SubSeq(t, 1, n)>> \o Words(SliceFrom(t, n))

TruncateWords == 25

FirstWords(words) ==
  IF Len(words) > TruncateWords THEN SubSeq(words, 1, TruncateWords)
  ELSE words

\* text.replace('"', "'").replace("\n", " ")
Clean(text) ==
  [i \in 1..Len(text) |->
     IF text[i] = "\"" THEN "'" ELSE IF text[i] = "\n" THEN " " ELSE text[i]]

\* truncate(text): quotes replaced, tags removed, the first 25 words.
truncate(text) == Join(FirstWords(Words(StripTags(Clean(text)))), <<" ">>)

\* page_dict.get(key), falsy when absent
GetOrEmpty(d, key) == IF key \in DOMAIN d THEN d[key] ELSE <<>>

\* summary or description or truncate(content)
Summary(page_dict) ==
  IF GetOrEmpty(page_dict, "summary") # <<>> THEN page_dict["summary"]
  ELSE IF GetOrEmpty(page_dict, "description") # <<>>
  THEN page_dict["description"]
  ELSE truncate(page_dict["content"])

\* IndexItems walking the pages from the last to the first.
IndexItemsBackwards(pages, item_layout, site_params) ==
  [k \in 1..Len(pages) |->
     render_template(item_layout,
       Put(Update(site_params, pages[Len(pages) + 1 - k]), "summary",
           Summary(pages[Len(pages) + 1 - k])))]

\* The for loop of make_index: every page rendered through the item layout.
IndexItems(pages, item_layout, site_params) ==
  [k \in 1..Len(pages) |->
     render_template(item_layout,
       Put(Update(site_params, pages[k]), "summary", Summary(pages[k])))]

\* if front_content: site_params["front_content"] = ...  (front is the
\* result of render_page, status "none" standing for None)
WithFront(front, site_params) ==
  IF front.status = "ok"
  THEN Put(site_params, "front_content", GetOrEmpty(front.page, "content"))
  ELSE site_params

\* site_params["content"] = "".join(items); the concatenation is kept as the
\* sequence of the rendered items.
IndexParams(front, items, site_params) ==
  Put(WithFront(front, site_params), "content", items)

\* The list layout rendered and written with the updated dictionary.
WriteIndex(dest, list_layout, params, out) ==
  [params |-> params,
   out |-> fwrite(out, DestPath(dest, params), <<>>,
                  render_template(list_layout, params))]

\* make_index.  site_params is the caller's dictionary, which the call
\* updates in place: params is its value when the call returns.
make_index(front, pages, dest, list_layout, item_layout, site_params, out) ==
  WriteIndex(dest, list_layout,
             IndexParams(front, IndexItems(pages, item_layout, site_params),
                         site_params),
             out)

(***************************************************************************)
(* The inputs of a build: the command line, the configuration file and the *)
(* content tree.  The environment is healthy: the content files are        *)
(* readable, the configuration is valid JSON, the layout directory holds   *)
(* the six layouts, the Markdown engine is installed and the output        *)
(* directory is writable.                                                  *)
(***************************************************************************)
ContentRoot == <<"c", "o", "n", "t", "e", "n", "t">>

OutputRoot == "public"

CurrentYear == 2026

DefaultHumanFormat == <<"%", "d", " ", "%", "b", ",", " ", "%", "Y">>

\* The default parameters of make_site.
DefaultParams ==
  [author |-> <<"A", "d", "m", "i", "n">>,
   site_subtitle |-> <<>>,
   site_description |-> <<>>,
   date_human_format |-> DefaultHumanFormat,
   current_year |-> CurrentYear]

\* a dated post without a header
PostA ==
  [name |-> <<"2", "0", "2", "0", "-", "1", "2", "-", "3", "1", "-", "a",
              ".", "m", "d">>,
   text |-> <<"x", "\n">>]

\* a header that declares date (compact form), slug and title
PostB ==
  [name |-> <<"b", ".", "m", "d">>,
   text |-> <<"-", "-", "-", "\n", "d", "a", "t", "e", ":", " ", "2", "0",
              "2", "0", "0", "1", "0", "1", "\n", "s", "l", "u", "g", ":",
              " ", "b", "b", "\n", "t", "i", "t", "l", "e", ":", " ", "B",
              "\n", "-", "-", "-", "\n", "x">>]

\* same date as PostA, an HTML file with a custom layout
PostC ==
  [name |-> <<"2", "0", "2", "0", "-", "1", "2", "-", "3", "1", "-", "c",
              ".", "h", "t", "m", "l">>,
   text |-> <<"-", "-", "-", "\n", "t", "e", "m", "p", "l", "a", "t", "e",
              ":", " ", "p", "a", "g", "e", ".", "h", "t", "m", "l", "\n",
              "-", "-", "-", "\n", "<", "p", ">", "x", "<", "/", "p",
              ">">>]

\* neither header nor date prefix
PostD ==
  [name |-> <<"d", ".", "m", "d">>,
   text |-> <<"x">>]

\* a header that is never closed
PostE ==
  [name |-> <<"e", ".", "m", "d">>,
   text |-> <<"-", "-", "-", "\n", "x">>]

\* the front content of a directory
Front ==
  [name |-> <<"_", "i", "n", "d", "e", "x", ".", "m", "d">>,
   text |-> <<"-", "-", "-", "\n", "t", "i", "t", "l", "e", ":", " ", "F",
              "\n", "-", "-", "-", "\n", "f">>]

\* the post of the second directory
PostN ==
  [name |-> <<"2", "0", "2", "0", "-", "0", "1", "-", "0", "1", "-", "n",
              ".", "m", "d">>,
   text |-> <<"n">>]

\* a top-level page with neither header nor date prefix
About ==
  [name |-> <<"a", "b", "o", "u", "t", ".", "m", "d">>,
   text |-> <<"x">>]

\* the root index
RootIndex ==
  [name |-> <<"_", "i", "n", "d", "e", "x", ".", "h", "t", "m", "l">>,
   text |-> <<"h">>]

BlogFiles == {PostA, PostB, PostC, PostD, PostE, Front}

\* The orders in which a directory can list at most n of the files of S.
Listings(S, n) ==
  UNION { { f \in [1..k -> S] : \A i, j \in 1..k : i # j => f[i] # f[j] } :
          k \in 0..n }

RootListings == { <<>>, <<About, RootIndex>> }

JsonTrue == [t |-> "bool", b |-> TRUE]

Blog == <<"b", "l", "o", "g">>

News == <<"n", "e", "w", "s">>

\* site.json: no file, or the mapping it holds.  content_dirs keeps the
\* order of the file as a sequence of [name, meta].
NoConfig == [present |-> FALSE, params |-> EmptyDict]

ConfigIndexAndFeed ==
  [present |-> TRUE,
   params |->
     [content_dirs |->
        << [name |-> Blog,
            meta |-> [generate_index |-> JsonTrue,
                      generate_rss |-> JsonTrue]] >>]]

ConfigTopLevelTitle ==
  [present |-> TRUE,
   params |->
     [title |-> <<"S", "i", "t", "e">>,
      content_dirs |->
        << [name |-> Blog,
            meta |-> [title |-> <<"P", "o", "s", "t", "s">>,
                      generate_index |-> JsonTrue,
                      generate_rss |-> JsonTrue]] >>]]

ConfigRenamed ==
  [present |-> TRUE,
   params |->
     [author |-> <<"m", "e">>,
      date_human_format |-> <<"%", "Y">>,
      content_dirs |->
        << [name |-> Blog,
            meta |-> [slug |-> <<"p">>,
                      title |-> <<"P", "o", "s", "t", "s">>,
                      generate_index |-> [t |-> "str", s |-> <<"N", "o">>],
                      generate_rss |-> [t |-> "int", n |-> 1]]] >>]]

ConfigTwoDirs ==
  [present |-> TRUE,
   params |->
     [content_dirs |->
        << [name |-> Blog,
            meta |-> [generate_index |->
                        [t |-> "str", s |-> <<"Y", "e", "s">>]]],
           [name |-> News,
            meta |-> [generate_index |-> JsonTrue,
                      generate_rss |-> JsonTrue]] >>]]

Configs ==
  {NoConfig, ConfigIndexAndFeed, ConfigTopLevelTitle, ConfigRenamed,
   ConfigTwoDirs}

\* The files that exist in an output directory left by an earlier build.
StaleFiles == {OutputRoot \o "/index.html"}

Environments ==
  [output_exists : BOOLEAN, overwrite : BOOLEAN, all : BOOLEAN,
   config : Configs, root : RootListings,
   blog : Listings(BlogFiles, MaxPosts)]

\* The listing of content directory d.
ListingOf(e, d) ==
  IF d = Blog THEN e.blog ELSE IF d = News THEN <<PostN>> ELSE <<>>

(***************************************************************************)
(* make_site as a state machine.                                           *)
(*   env            the inputs of the build                                *)
(*   pc             the position of make_site                              *)
(*   exit_code      the exit code of the process, -1 while it runs         *)
(*   failure        what ended the build: [kind, cause, file]              *)
(*   site_params    the site-wide parameter dictionary                     *)
(*   dir_i          the index of the current entry of content_dirs         *)
(*   dir_params     the parameter dictionary of the current directory      *)
(*   content_pages  the list make_pages returned for the current directory *)
(*   out            the output directory and the warnings, see fwrite      *)
(* and the content reader on its own:                                      *)
(*   cr_in          the arguments of a read_content call                   *)
(*   cr_out         its outcome                                            *)
(*   cr_re          read_header applied again to the returned remainder    *)
(***************************************************************************)
VARIABLES env, pc, exit_code, failure, site_params, dir_i, dir_params,
          content_pages, out, cr_in, cr_out, cr_re

site_vars ==
  <<env, pc, exit_code, failure, site_params, dir_i, dir_params,
    content_pages, out>>

reader_vars == <<cr_in, cr_out, cr_re>>

vars == <<site_vars, reader_vars>>

NoFailure == [kind |-> "none", cause |-> "none", file |-> <<>>]

\* log_critical, or an exception that reaches the interpreter: exit code 1.
Die(kind, cause, file) ==
  /\ pc' = "exit"
  /\ exit_code' = 1
  /\ failure' = [kind |-> kind, cause |-> cause, file |-> file]

\* site_params.get("content_dirs", {}).items()
ContentDirs(params) ==
  IF "content_dirs" \in DOMAIN params THEN params["content_dirs"] ELSE <<>>

DirPath(d) == ContentRoot \o <<"/">> \o d

\* meta.get("slug", d)
OutputSubdir(entry) ==
  IF "slug" \in DOMAIN entry.meta THEN entry.meta["slug"] ELSE entry.name

\* meta.get("title", d.capitalize())
DirTitle(entry) ==
  IF "title" \in DOMAIN entry.meta THEN entry.meta["title"]
  ELSE Capitalize(entry.name)

DirKeywords == {"dir", "title", "current_content_dir"}

\* dict(dir=output_subdir, title=title, current_content_dir=meta,
\*      **site_params), defined when no key is given twice.
DirParams(entry, params) ==
  Update(params,
         [dir |-> OutputSubdir(entry), title |-> DirTitle(entry),
          current_content_dir |-> entry.meta])

DirOutput(entry) == OutputRoot \o "/" \o Str(OutputSubdir(entry))

\* MakeOutputDir with exist_ok always true.
MakeOutputDirExistOk ==
  /\ pc = "start"
  /\ pc' = "config"
  /\ UNCHANGED <<env, exit_code, failure, site_params, dir_i, dir_params,
                 content_pages, out, reader_vars>>

\* os.makedirs(output, exist_ok=overwrite_output)
MakeOutputDir ==
  /\ pc = "start"
  /\ IF env.output_exists /\ ~env.overwrite
     THEN Die("critical", "FileExistsError", <<>>)
     ELSE pc' = "config" /\ UNCHANGED <<exit_code, failure>>
  /\ UNCHANGED <<env, site_params, dir_i, dir_params, content_pages, out,
                 reader_vars>>

\* The default parameters, the configuration file and the six layouts.
LoadConfig ==
  /\ pc = "config"
  /\ site_params' = IF env.config.present
                    THEN Update(DefaultParams, env.config.params)
                    ELSE DefaultParams
  /\ out' = IF env.config.present THEN out
            ELSE [out EXCEPT !.warns = Append(@, [msg |-> "no_config"])]
  /\ pc' = "root_pages"
  /\ UNCHANGED <<env, exit_code, failure, dir_i, dir_params, content_pages,
                 reader_vars>>

\* What a make_pages call of make_site leaves behind.
AfterMakePages(r, next) ==
  /\ out' = r.out
  /\ IF r.st = "ok"
     THEN pc' = next /\ UNCHANGED <<exit_code, failure>>
     ELSE Die(r.st, r.cause, r.file)

PagesDest(prefix) ==
  [pre |-> prefix \o "/", slug |-> TRUE, post |-> "/index.html"]

FixedDest(path) == [pre |-> path, slug |-> FALSE, post |-> ""]

\* make_pages over content/[!_]*.{md,html}
RootPages ==
  /\ pc = "root_pages"
  /\ AfterMakePages(
       make_pages(ContentRoot, expand_files(env.root, "pages", 0),
                  PagesDest(OutputRoot), "page.html", site_params, out),
       "root_index")
  /\ UNCHANGED <<env, site_params, dir_i, dir_params, content_pages,
                 reader_vars>>

\* make_pages over content/_index.{md,html}
RootIndexPage ==
  /\ pc = "root_index"
  /\ AfterMakePages(
       make_pages(ContentRoot, expand_files(env.root, "index", 0),
                  FixedDest(OutputRoot \o "/index.html"), "page.html",
                  site_params, out),
       "dirs")
  /\ dir_i' = 1
  /\ UNCHANGED <<env, site_params, dir_params, content_pages, reader_vars>>

CurrentDir == ContentDirs(site_params)[dir_i]

PostsPattern == IF env.all THEN "all" ELSE "pages"

AfterDirPosts(params, r) ==
  /\ dir_params' = params
  /\ content_pages' = r.items
  /\ AfterMakePages(r, "dir_index")

PostsOf(entry, params) ==
  AfterDirPosts(params,
    make_pages(DirPath(entry.name),
               expand_files(ListingOf(env, entry.name), PostsPattern, 0),
               PagesDest(DirOutput(entry)), "post.html", params, out))

\* The head of the loop body: dir_params and the posts of the directory.
DirPosts ==
  /\ pc = "dirs"
  /\ dir_i <= Len(ContentDirs(site_params))
  /\ IF DirKeywords \cap DOMAIN site_params # {}
     THEN /\ Die("uncaught", "TypeError", <<>>)
          /\ UNCHANGED <<dir_params, content_pages, out>>
     ELSE PostsOf(CurrentDir, DirParams(CurrentDir, site_params))
  /\ UNCHANGED <<env, site_params, dir_i, reader_vars>>

GenerateIndex(entry) == to_bool(MetaFlag(entry.meta, "generate_index"))

GenerateRss(entry) == to_bool(MetaFlag(entry.meta, "generate_rss"))

IndexFiles(entry, max_results) ==
  expand_files(ListingOf(env, entry.name), "index", max_results)

\* What a make_index call leaves behind: the directory's dictionary updated
\* in place, and the file written.
AfterMakeIndex(r) == dir_params' = r.params /\ out' = r.out

\* The generate_index branch once render_page has returned front.
IndexWithFront(entry, front) ==
  IF front.status \in {"ok", "none"}
  THEN /\ AfterMakeIndex(
            make_index(front, content_pages,
                       FixedDest(DirOutput(entry) \o "/index.html"),
                       "list.html", "item.html", dir_params,
                       WithWarns(out, front.warns)))
       /\ pc' = "dir_rss"
       /\ UNCHANGED <<exit_code, failure>>
  ELSE /\ Die(front.status, front.cause,
              FilePath(DirPath(entry.name), IndexFiles(entry, 1)[1]))
       /\ UNCHANGED <<dir_params, out>>

\* The index of the directory: the aggregated index with its front content,
\* or the directory's own _index file rendered as a page.
DirIndex ==
  /\ pc = "dir_index"
  /\ IF GenerateIndex(CurrentDir)
     THEN IndexWithFront(CurrentDir,
            render_page(DirPath(CurrentDir.name), IndexFiles(CurrentDir, 1),
                        site_params))
     ELSE /\ AfterMakePages(
               make_pages(DirPath(CurrentDir.name), IndexFiles(CurrentDir, 0),
                          FixedDest(DirOutput(CurrentDir) \o "/index.html"),
                          "page.html", site_params, out),
               "dir_rss")
          /\ UNCHANGED dir_params
  /\ UNCHANGED <<env, site_params, dir_i, content_pages, reader_vars>>

\* The feed of the directory, when it asks for one; then the next directory.
DirRss ==
  /\ pc = "dir_rss"
  /\ IF GenerateRss(CurrentDir)
     THEN AfterMakeIndex(
            make_index(NoPage("none", "none"), content_pages,
                       FixedDest(DirOutput(CurrentDir) \o "/rss.xml"),
                       "feed.xml", "item.xml", dir_params, out))
     ELSE UNCHANGED <<dir_params, out>>
  /\ dir_i' = dir_i + 1
  /\ pc' = "dirs"
  /\ UNCHANGED <<env, exit_code, failure, site_params, content_pages,
                 reader_vars>>

\* make_site returns and the process exits with code 0.
Finish ==
  /\ pc = "dirs"
  /\ dir_i > Len(ContentDirs(site_params))
  /\ pc' = "exit"
  /\ exit_code' = 0
  /\ UNCHANGED <<env, failure, site_params, dir_i, dir_params, content_pages,
                 out, reader_vars>>

ReaderIdle ==
  [status |-> "idle", exit_code |-> -1, where |-> "none", file |-> <<>>,
   cause |-> "none", item |-> NoItem, warnings |-> 0]

HeaderIdle == [exc |-> "idle", values |-> EmptyDict, end |-> 0]

ReaderOff ==
  /\ cr_in = [filename |-> <<>>, readable |-> FALSE, text |-> <<>>,
              params |-> EmptyDict]
  /\ cr_out = ReaderIdle
  /\ cr_re = HeaderIdle

Init ==
  /\ env \in Environments
  /\ pc = "start"
  /\ exit_code = -1
  /\ failure = NoFailure
  /\ site_params = EmptyDict
  /\ dir_i = 0
  /\ dir_params = EmptyDict
  /\ content_pages = <<>>
  /\ out = [writes |-> <<>>,
            files |-> IF env.output_exists THEN StaleFiles ELSE {},
            warns |-> <<>>]
  /\ ReaderOff

Next ==
  \/ MakeOutputDir
  \/ LoadConfig
  \/ RootPages
  \/ RootIndexPage
  \/ DirPosts
  \/ DirIndex
  \/ DirRss
  \/ Finish

Spec == Init /\ [][Next]_vars

(***************************************************************************)
(* The content reader on its own: read_content applied to one file, then   *)
(* read_header applied again to the remainder it returned.                 *)
(***************************************************************************)
HeaderLines ==
  { <<"-", "-", "-">>,
    <<"-", "-", "-", " ">>,
    <<"d", "a", "t", "e", ":", " ", "2", "0", "2", "0", "1", "2", "3",
        "1">>,
    <<"s", "l", "u", "g", ":">>,
    <<"x">>,
    <<>> }

\* The texts of at most MaxLines lines.
Texts ==
  { Join(ls, <<"\n">>) :
      ls \in UNION { [1..k -> HeaderLines] : k \in 0..MaxLines } }

Filenames ==
  { <<"c", "o", "n", "t", "e", "n", "t", "/", "a", ".", "m", "d">>,
    <<"c", "o", "n", "t", "e", "n", "t", "/", "2", "0", "2", "0", "-",
        "0", "2", "-", "2", "9", "-", "a", ".", "m", "d">>,
    <<"c", "o", "n", "t", "e", "n", "t", "/", "2", "0", "2", "1", "-",
        "0", "2", "-", "2", "9", "-", "a", ".", "m", "d">>,
    <<"c", "o", "n", "t", "e", "n", "t", "/", "2", "0", "2", "0", "-",
        "0", "1", "-", "0", "1", "-", ".", "m", "d">>,
    <<"c", "o", "n", "t", "e", "n", "t", "/", "a", ".", "b", ".", "m",
        "d">>,
    <<"c", "o", "n", "t", "e", "n", "t", "/", "2", "0", "2", "0", "-",
        "0", "1", "-", "0", "1", "-", "a", ".", "b", ".", "h", "t", "m",
        "l">>,
    <<"c", "o", "n", "t", "e", "n", "t", "/", "2", "0", "2", "0", "-",
        "1", "-", "0", "1", "-", "a", ".", "m", "d">>,
    <<"c", "o", "n", "t", "e", "n", "t", ".", "d", "/", "_", "i", "n",
        "d", "e", "x", ".", "m", "d">> }

\* The dictionaries read_content is called with: the defaults, and a
\* configuration that sets a date format, a date and a slug of its own.
BaseParams ==
  { DefaultParams,
    Update(DefaultParams,
           [date_human_format |-> <<"%", "m", "/", "%", "Y">>,
            date |-> <<"x">>, slug |-> <<"c", "f", "g">>]) }

SiteOff ==
  /\ env = [output_exists |-> FALSE, overwrite |-> FALSE, all |-> FALSE,
            config |-> NoConfig, root |-> <<>>, blog |-> <<>>]
  /\ pc = "off"
  /\ exit_code = -1
  /\ failure = NoFailure
  /\ site_params = EmptyDict
  /\ dir_i = 0
  /\ dir_params = EmptyDict
  /\ content_pages = <<>>
  /\ out = [writes |-> <<>>, files |-> {}, warns |-> <<>>]

ReaderInit ==
  /\ cr_in \in [filename : Filenames, readable : BOOLEAN, text : Texts,
                params : BaseParams]
  /\ cr_out = ReaderIdle
  /\ cr_re = HeaderIdle
  /\ SiteOff

\* read_content(filename, site_params)
ReadContent ==
  /\ cr_out.status = "idle"
  /\ cr_out' = read_content(cr_in.filename, cr_in.readable, cr_in.text,
                            cr_in.params)
  /\ UNCHANGED <<cr_in, cr_re, site_vars>>

\* read_header(text[end:]): the header parser on the returned remainder.
ReparseRemainder ==
  /\ cr_out.status = "ok"
  /\ cr_re.exc = "idle"
  /\ cr_re' = read_header(cr_out.item["content"])
  /\ UNCHANGED <<cr_in, cr_out, site_vars>>

ReaderNext ==
  \/ ReadContent
  \/ ReparseRemainder

SpecReader == ReaderInit /\ [][ReaderNext]_vars

(***************************************************************************)
(* Properties of the content reader (SpecReader).                          *)
(***************************************************************************)
ReaderLines == Split(cr_in.text, "\n")

\* The first line of the text, trimmed, is the sentinel.
HeaderOpened == Strip(ReaderLines[1]) = Sentinel

\* Some later line, trimmed, is the sentinel.
HeaderClosed ==
  \E i \in 2..Len(ReaderLines) : Strip(ReaderLines[i]) = Sentinel

\* The index of the closing sentinel of a closed header.
ClosingLine ==
  CHOOSE i \in 2..Len(ReaderLines) :
    /\ Strip(ReaderLines[i]) = Sentinel
    /\ \A j \in 2..(i - 1) : Strip(ReaderLines[j]) # Sentinel

\* The line that follows the closing sentinel, empty when there is none.
LineAfterHeader ==
  IF ClosingLine < Len(ReaderLines) THEN ReaderLines[ClosingLine + 1] ELSE <<>>

FoundNoHeader(h) == h.exc = "none" /\ DOMAIN h.values = {} /\ h.end = 0

\* os.path.splitext(os.path.basename(filename))[0]: the name with only its
\* last extension removed.
FullStem(filename) ==
  IF LastIndex(Basename(filename), ".") > 1
  THEN SubSeq(Basename(filename), 1, LastIndex(Basename(filename), ".") - 1)
  ELSE Basename(filename)

HeaderDeclares(key) ==
  HeaderOpened /\ HeaderClosed /\ key \in DOMAIN read_header(cr_in.text).values

\* C2: a file named YYYY-MM-DD-slug.ext gets the prefix as its date and the
\* rest of the stem as its slug; any other file gets the date 1970-01-01 and
\* its full stem (the name without its extension, dots included) as its
\* slug.  Stated for the files whose header declares neither key.
C2_FilenameGivesDateAndSlug ==
  (cr_out.status = "ok" /\ ~HeaderDeclares("date") /\ ~HeaderDeclares("slug"))
    => IF HasDatePrefix(FullStem(cr_in.filename))
       THEN /\ cr_out.item["date"] = SubSeq(FullStem(cr_in.filename), 1, 10)
            /\ cr_out.item["slug"] = SliceFrom(FullStem(cr_in.filename), 11)
       ELSE /\ cr_out.item["date"] = EpochDate
            /\ cr_out.item["slug"] = FullStem(cr_in.filename)

\* C3: reading a readable file whose header is opened and never closed ends
\* in log_critical for that file with exit code 1, never in an IndexError
\* that escapes the reader.
C3_UnclosedHeaderIsReported ==
  (cr_out.status # "idle" /\ cr_in.readable /\ HeaderOpened /\ ~HeaderClosed)
    => /\ cr_out.status = "critical"
       /\ cr_out.exit_code = 1
       /\ cr_out.where = "read_content"
       /\ cr_out.file = cr_in.filename

C3_Witness ==
  /\ cr_in.readable /\ HeaderOpened /\ ~HeaderClosed
  /\ Len(ReaderLines) >= 2
  /\ cr_out.status = "critical"
  /\ cr_out.cause = "IndexError"

\* C4 as stated: after a valid header block, read_header on the remainder
\* returns an empty mapping and offset 0.
C4_ReparseFindsNoHeader ==
  (cr_re.exc # "idle" /\ HeaderOpened) => FoundNoHeader(cr_re)

\* C4 amended: after a valid header block, read_header on the remainder
\* returns an empty mapping and offset 0 exactly when the line after the
\* closing sentinel is not itself, trimmed, a sentinel.
C4_ReparseFindsHeaderOnlyAtSentinel ==
  (cr_re.exc # "idle" /\ HeaderOpened)
    => (FoundNoHeader(cr_re) <=> Strip(LineAfterHeader) # Sentinel)

C4_Witness ==
  /\ cr_re.exc # "idle" /\ HeaderOpened
  /\ DOMAIN read_header(cr_in.text).values # {}
  /\ LineAfterHeader # <<>>
  /\ FoundNoHeader(cr_re)

\* C5: every item read_content returns has a non-empty slug and a date that
\* one of the two patterns of format_time accepts.
C5_ItemHasSlugAndValidDate ==
  cr_out.status = "ok"
    => /\ "slug" \in DOMAIN cr_out.item /\ cr_out.item["slug"] # <<>>
       /\ "date" \in DOMAIN cr_out.item /\ ParseDate(cr_out.item["date"]).ok

(***************************************************************************)
(* Properties of the build (Spec).                                         *)
(***************************************************************************)
Writes == out.writes

\* The parameters the configuration leaves in site_params.
ConfiguredParams ==
  IF env.config.present THEN Update(DefaultParams, env.config.params)
  ELSE DefaultParams

\* The files a posts glob matches in the directory of entry, in glob order.
PostFiles(entry) == expand_files(ListingOf(env, entry.name), PostsPattern, 0)

\* The fwrite calls of the posts of entry: those whose source is a file of
\* its posts glob.
IsPostWrite(entry, w) ==
  \E k \in 1..Len(PostFiles(entry)) :
    /\ w.src = FilePath(DirPath(entry.name), PostFiles(entry)[k])
    /\ w.path # DirOutput(entry) \o "/index.html"

\* A calendar date as one number, 0 when the text is not a date.
DateNumber(date) ==
  ParseDate(date).y * 10000 + ParseDate(date).m * 100 + ParseDate(date).d

\* The place in glob order of the file that page was read from.
GlobPlace(entry, page) ==
  CHOOSE k \in 1..Len(PostFiles(entry)) :
    render_page(DirPath(entry.name), <<PostFiles(entry)[k]>>,
                DirParams(entry, site_params)).page = page

\* C1: the list make_pages returns is in descending order of date, and two
\* items of the same date are in the order in which the glob listed them.
C1_PagesByDateThenGlobOrder ==
  pc \in {"dir_index", "dir_rss"}
    => \A i, j \in 1..Len(content_pages) :
         i < j =>
           /\ DateNumber(content_pages[i]["date"])
                >= DateNumber(content_pages[j]["date"])
           /\ DateNumber(content_pages[i]["date"])
                = DateNumber(content_pages[j]["date"])
                => GlobPlace(CurrentDir, content_pages[i])
                     < GlobPlace(CurrentDir, content_pages[j])

\* The keys read_content and make_index compute themselves.
ComputedKeys ==
  {"content", "short_date", "human_date", "rfc_2822_date", "summary",
   "front_content"}

\* The layers of a post of entry read from file, earliest first.
Layers(entry, file) ==
  << DefaultParams,
     env.config.params,
     [dir |-> OutputSubdir(entry), title |-> DirTitle(entry),
      current_content_dir |-> entry.meta],
     FilenameMeta(FilePath(DirPath(entry.name), file)),
     read_header(file.text).values >>

LastLayerWith(layers, key) ==
  CHOOSE n \in 1..Len(layers) :
    /\ key \in DOMAIN layers[n]
    /\ \A m \in (n + 1)..Len(layers) : key \notin DOMAIN layers[m]

\* params holds, for every key of the layers, the value of the last layer
\* that defines it.
LaterLayerWins(layers, params) ==
  \A n \in 1..Len(layers) :
    \A key \in (DOMAIN layers[n]) \ ComputedKeys :
      /\ key \in DOMAIN params
      /\ params[key] = layers[LastLayerWith(layers, key)][key]

\* C6: unless a reported fatal error stops the build, every post of every
\* configured directory is rendered with the parameters of the layers, the
\* later layer winning.
C6_LaterLayerWins ==
  (pc = "exit" /\ failure.kind # "critical")
    => \A d \in 1..Len(ContentDirs(ConfiguredParams)) :
         LET entry == ContentDirs(ConfiguredParams)[d] IN
         \A k \in 1..Len(PostFiles(entry)) :
           \E i \in 1..Len(Writes) :
             /\ Writes[i].src
                  = FilePath(DirPath(entry.name), PostFiles(entry)[k])
             /\ LaterLayerWins(Layers(entry, PostFiles(entry)[k]),
                               Writes[i].output.params)

\* C7: with an output directory that exists and no overwrite_output, the
\* build ends with exit code 1 and nothing is ever written.
C7_ExistingOutputStopsTheBuild ==
  (env.output_exists /\ ~env.overwrite)
    => /\ Writes = <<>>
       /\ out.files = StaleFiles
       /\ pc \in {"start", "exit"}
       /\ pc = "exit" => exit_code = 1

C7_Witness ==
  /\ env.output_exists /\ ~env.overwrite
  /\ env.root # <<>>
  /\ pc = "exit"
  /\ exit_code = 1
  /\ failure.cause = "FileExistsError"

\* The content files of the tree with their paths.
SourceFiles ==
  { [path |-> FilePath(ContentRoot, env.root[k]), file |-> env.root[k]] :
      k \in 1..Len(env.root) }
    \cup { [path |-> FilePath(DirPath(Blog), env.blog[k]),
            file |-> env.blog[k]] : k \in 1..Len(env.blog) }
    \cup { [path |-> FilePath(DirPath(News), PostN), file |-> PostN] }

\* Neither a header block nor a date prefix in the name.
IsPlain(file) ==
  /\ Strip(Split(file.text, "\n")[1]) # Sentinel
  /\ ~HasDatePrefix(FullStem(file.name))

PlainWrites ==
  { i \in 1..Len(Writes) :
      \E sf \in SourceFiles : sf.path = Writes[i].src /\ IsPlain(sf.file) }

DateWarned(date) ==
  \E n \in 1..Len(out.warns) :
    out.warns[n].msg = "cant_parse_date" /\ out.warns[n].date = date

\* The plain files a finished make_pages call has matched.
PlainDone ==
  { sf \in SourceFiles :
      /\ IsPlain(sf.file)
      /\ \/ /\ pc \in {"root_index", "dirs", "dir_index", "dir_rss"}
            /\ \E k \in 1..Len(env.root) :
                 /\ env.root[k] = sf.file
                 /\ sf.path = FilePath(ContentRoot, sf.file)
                 /\ GlobMatches("pages", sf.file.name, MdExt)
         \/ /\ pc \in {"dir_index", "dir_rss"}
            /\ \E k \in 1..Len(PostFiles(CurrentDir)) :
                 sf.path = FilePath(DirPath(CurrentDir.name),
                                    PostFiles(CurrentDir)[k]) }

\* C8 as stated: a file with neither header nor date prefix is rendered
\* with the date 1970-01-01 and an empty human_date, a warning being logged.
C8_PlainFileHasEmptyHumanDate ==
  \A i \in PlainWrites :
    /\ Writes[i].output.params["date"] = EpochDate
    /\ Writes[i].output.params["human_date"] = <<>>
    /\ DateWarned(EpochDate)

\* C8 amended: a file with neither header nor date prefix is rendered with
\* the date 1970-01-01 and human_date that date in date_human_format, no
\* date warning is logged for it, and its output is written once the
\* make_pages call that matches it has returned.
C8_PlainFileHasEpochDate ==
  /\ \A i \in PlainWrites :
       /\ Writes[i].output.params["date"] = EpochDate
       /\ Writes[i].output.params["human_date"]
            = strftime(ConfiguredParams["date_human_format"], 1970, 1, 1)
       /\ ~DateWarned(EpochDate)
  /\ \A sf \in PlainDone : \E i \in PlainWrites : Writes[i].src = sf.path

C8_Witness ==
  /\ \E i \in PlainWrites :
       /\ Writes[i].src = FilePath(DirPath(Blog), PostD)
       /\ Writes[i].output.params["human_date"]
            = <<"0", "1", " ", "J", "a", "n", ",", " ", "1", "9", "7", "0">>

\* The directory whose loop body has just ended.
DoneDir == ContentDirs(site_params)[dir_i - 1]

DirJustDone ==
  /\ dir_i > 1
  /\ \/ pc = "dirs"
     \/ pc = "exit" /\ exit_code = 0

\* The last fwrite to path.
LastWrite(path) ==
  Writes[CHOOSE i \in 1..Len(Writes) :
           /\ Writes[i].path = path
           /\ \A j \in (i + 1)..Len(Writes) : Writes[j].path # path]

\* The rendered items a list layout was given.
ItemsOf(w) == w.output.params["content"]

SamePage(item, layout, page) ==
  /\ item.layout = layout
  /\ \A key \in DOMAIN page : key \in DOMAIN item.params
  /\ \A key \in {"slug", "date", "content", "short_date"} :
       item.params[key] = page[key]

PostWrites(entry) ==
  { i \in 1..Len(Writes) : IsPostWrite(entry, Writes[i]) }

C10_FeedSeesNoFrontContent ==
  /\ \A i \in 1..Len(Writes) :
       Writes[i].output.layout = "feed.xml"
         => "front_content" \notin DOMAIN Writes[i].output.params
  /\ pc \notin {"start", "config", "off"}
       => (site_params = ConfiguredParams \/ DOMAIN site_params = {})

====
